---- MODULE Spec2Model ----
(***************************************************************************)
(* FIFO lot matching with short positions and end-of-month valuation:      *)
(* calculate_fifo_pnl of src/new.py.  The matching loop of src/fifo.py     *)
(* (lines 40-148) is the same statements as new.py lines 42-143.           *)
(*                                                                         *)
(* Prices and quantities are floats in the source; the model uses integers *)
(* (exact arithmetic).  A pandas NaN cell is the value NaN, a Python None  *)
(* is the empty tuple and a present optional value v is <<v>>.             *)
(* A lot is the tuple <<price, quantity>> as in the source.                *)
(* The f-string of an event's 'Remaining' field is the tuple of the three  *)
(* values it interpolates: <<label, quantity, lot price>>.                 *)
(***************************************************************************)
EXTENDS Integers, Sequences, FiniteSets, TLC

\* Number of rows of the trade table that one run reads at most.
MaxTrades == 3

NaN == -1000000
None == <<>>
Some(v) == <<v>>

Contracts == {"X", "Y"}

\* The rows the trade table is drawn from: (Contract, Price, Quantity).  X trades
\* at 100 in every size, and at 98 and 105 in the sizes -10, -4 and 10.
ValidRows ==
    [Contract : {"X"}, Price : {100}, Quantity : {-15, -10, -4, 0, 4, 10}]
        \cup [Contract : {"X"}, Price : {98, 105}, Quantity : {-10, -4, 10}]
        \cup [Contract : {"Y"}, Price : {100}, Quantity : {-4, 10}]

MissingRows ==
    { [Contract |-> "X", Price |-> NaN, Quantity |-> 10],
      [Contract |-> "X", Price |-> 100, Quantity |-> NaN] }

Rows == ValidRows \cup MissingRows

\* The eom_prices argument: a dict over some of the contracts.  None and the
\* empty dict are both falsy at new.py:150 and are the function with empty domain.
MarkPrices == {0, 90, 100}
EomChoices ==
    { eom \in UNION { [D -> MarkPrices] : D \in SUBSET Contracts } :
          "Y" \in DOMAIN eom => eom["Y"] = 100 }

VARIABLES
    positions,               \* contract -> list of long lots (missing key = <<>>)
    short_positions,         \* contract -> list of short lots
    positions_keys,          \* key insertion order of positions
    short_positions_keys,    \* key insertion order of short_positions
    realized_pnl,
    trade_history,
    pc,                      \* "loop", "buy_while", "sell_while", "done"
    rows_read,               \* number of rows of df consumed so far
    df,                      \* the rows of df iterated so far, in order
    contract, price, quantity,
    remaining_buy_quantity,
    remaining_sell_quantity,
    eom_prices,
    unrealized_pnl,
    remaining_data,
    positions_at_row,        \* positions when the current row was read
    short_positions_at_row,  \* short_positions when the current row was read
    history_len_at_row,      \* len(trade_history) when the current row was read
    loop_iterations          \* passes through the while body for the current row

vars == << positions, short_positions, positions_keys, short_positions_keys,
           realized_pnl, trade_history, pc, rows_read, df, contract, price, quantity,
           remaining_buy_quantity, remaining_sell_quantity, eom_prices,
           unrealized_pnl, remaining_data, positions_at_row,
           short_positions_at_row, history_len_at_row, loop_iterations >>

bookVars == << positions, short_positions, positions_keys, short_positions_keys >>
valuationVars == << eom_prices, unrealized_pnl, remaining_data >>
rowSnapshotVars == << positions_at_row, short_positions_at_row, history_len_at_row >>

----------------------------------------------------------------------------
(* Helpers, one per expression of the source.                              *)

\* No cell is recognised as missing.
isnaNever(v) == FALSE

isna(v) == v = NaN

IsBuy(q) == q > 0

SellQuantityKeepsSign(q) == q

SellQuantity(q) == -q

WhileCondLeavesLastLot(remaining, lots) == remaining > 0 /\ Len(lots) > 1

\* while remaining > 0 and <dict>.get(contract): an empty list is falsy
WhileCond(remaining, lots) == remaining > 0 /\ lots # <<>>

EntireLotStrict(first_quantity, remaining) == first_quantity < remaining

\* if first_quantity <= remaining: the whole front lot is closed
EntireLot(first_quantity, remaining) == first_quantity <= remaining

cover_pnl_swapped(first_short_price, p, q) == (p - first_short_price) * q

\* (first_short_price - price) * quantity
cover_pnl(first_short_price, p, q) == (first_short_price - p) * q

sell_pnl_swapped(p, first_buy_price, q) == (first_buy_price - p) * q

sell_pnl(p, first_buy_price, q) == (p - first_buy_price) * q

AddPnlOverwrites(total, lot_pnl) == lot_pnl

\* realized_pnl += lot_pnl
AddPnl(total, lot_pnl) == total + lot_pnl

popLast(lots) == SubSeq(lots, 1, Len(lots) - 1)

\* list.pop(0)
pop0(lots) == Tail(lots)

\* The reduced lot is taken out and put back at the end of the queue.
ReduceFrontMovesToBack(lots, first_price, first_quantity, remaining) ==
    Append(Tail(lots), <<first_price, first_quantity - remaining>>)

ReduceFront(lots, first_price, first_quantity, remaining) ==
    [lots EXCEPT ![1] = <<first_price, first_quantity - remaining>>]

PushFront(lots, p, q) == << <<p, q>> >> \o lots

\* list.append((price, remaining))
PushBack(lots, p, q) == Append(lots, <<p, q>>)

\* defaultdict: d[key] inserts the key when it is missing
TouchKey(keys, c) ==
    IF \E i \in 1..Len(keys) : keys[i] = c THEN keys ELSE Append(keys, c)

\* The event records the price of the lot instead of the price of the trade.
EventAtLotPrice(type, c, p, q, pnl, note) ==
    [Type |-> type, Contract |-> c, Price |-> note[3], Quantity |-> q, PnL |-> pnl,
     Remaining |-> note]

Event(type, c, p, q, pnl, note) ==
    [Type |-> type, Contract |-> c, Price |-> p, Quantity |-> q, PnL |-> pnl,
     Remaining |-> note]

----------------------------------------------------------------------------
Init ==
    /\ positions = [c \in Contracts |-> <<>>]
    /\ short_positions = [c \in Contracts |-> <<>>]
    /\ positions_keys = <<>>
    /\ short_positions_keys = <<>>
    /\ realized_pnl = 0
    /\ trade_history = <<>>
    /\ pc = "loop"
    /\ rows_read = 0
    /\ df = <<>>
    /\ contract = ""
    /\ price = NaN
    /\ quantity = NaN
    /\ remaining_buy_quantity = 0
    /\ remaining_sell_quantity = 0
    /\ eom_prices = <<>>
    /\ unrealized_pnl = 0
    /\ remaining_data = <<>>
    /\ positions_at_row = [c \in Contracts |-> <<>>]
    /\ short_positions_at_row = [c \in Contracts |-> <<>>]
    /\ history_len_at_row = 0
    /\ loop_iterations = 0

\* for _, row in df.iterrows(): the next row is bound to contract, price, quantity
ReadRow(row) ==
    /\ pc = "loop"
    /\ rows_read < MaxTrades
    /\ rows_read' = rows_read + 1
    /\ df' = Append(df, row)
    /\ contract' = row.Contract
    /\ price' = row.Price
    /\ quantity' = row.Quantity
    /\ positions_at_row' = positions
    /\ short_positions_at_row' = short_positions
    /\ history_len_at_row' = Len(trade_history)
    /\ loop_iterations' = 0

\* if pd.isna(price) or pd.isna(quantity): continue
SkipRow ==
    \E row \in Rows :
        /\ ReadRow(row)
        /\ isna(row.Price) \/ isna(row.Quantity)
        /\ pc' = "loop"
        /\ UNCHANGED << bookVars, realized_pnl, trade_history,
                        remaining_buy_quantity, remaining_sell_quantity,
                        valuationVars >>

\* if quantity > 0: remaining_buy_quantity = quantity
StartBuy ==
    \E row \in Rows :
        /\ ReadRow(row)
        /\ ~(isna(row.Price) \/ isna(row.Quantity))
        /\ IsBuy(row.Quantity)
        /\ remaining_buy_quantity' = row.Quantity
        /\ pc' = "buy_while"
        /\ UNCHANGED << bookVars, realized_pnl, trade_history,
                        remaining_sell_quantity, valuationVars >>

\* else: remaining_sell_quantity = -quantity
StartSell ==
    \E row \in Rows :
        /\ ReadRow(row)
        /\ ~(isna(row.Price) \/ isna(row.Quantity))
        /\ ~IsBuy(row.Quantity)
        /\ remaining_sell_quantity' = SellQuantity(row.Quantity)
        /\ pc' = "sell_while"
        /\ UNCHANGED << bookVars, realized_pnl, trade_history,
                        remaining_buy_quantity, valuationVars >>

----------------------------------------------------------------------------
(* Buy: cover the short lots of the contract, oldest first.                *)

\* if first_short_quantity <= remaining_buy_quantity: the front short lot is covered
CoverFull ==
    /\ pc = "buy_while"
    /\ WhileCond(remaining_buy_quantity, short_positions[contract])
    /\ LET first_short_price == short_positions[contract][1][1]
           first_short_quantity == short_positions[contract][1][2]
           lot_pnl == cover_pnl(first_short_price, price, first_short_quantity)
       IN  /\ EntireLot(first_short_quantity, remaining_buy_quantity)
           /\ realized_pnl' = AddPnl(realized_pnl, lot_pnl)
           /\ trade_history' = Append(trade_history,
                  Event("COVER", contract, price, first_short_quantity, lot_pnl,
                        <<"Covered", first_short_quantity, first_short_price>>))
           /\ remaining_buy_quantity' = remaining_buy_quantity - first_short_quantity
           /\ short_positions' =
                  [short_positions EXCEPT ![contract] = pop0(@)]
    /\ pc' = "buy_while"
    /\ UNCHANGED << positions, positions_keys, short_positions_keys, rows_read, df,
                    contract, price, quantity, remaining_sell_quantity,
                    valuationVars, rowSnapshotVars >>
    /\ loop_iterations' = loop_iterations + 1

\* else: part of the front short lot is covered
CoverPartial ==
    /\ pc = "buy_while"
    /\ WhileCond(remaining_buy_quantity, short_positions[contract])
    /\ LET first_short_price == short_positions[contract][1][1]
           first_short_quantity == short_positions[contract][1][2]
           lot_pnl == cover_pnl(first_short_price, price, remaining_buy_quantity)
       IN  /\ ~EntireLot(first_short_quantity, remaining_buy_quantity)
           /\ realized_pnl' = AddPnl(realized_pnl, lot_pnl)
           /\ trade_history' = Append(trade_history,
                  Event("COVER", contract, price, remaining_buy_quantity, lot_pnl,
                        <<"Covered", remaining_buy_quantity, first_short_price>>))
           /\ short_positions' =
                  [short_positions EXCEPT ![contract] =
                      ReduceFront(@, first_short_price, first_short_quantity,
                                  remaining_buy_quantity)]
           /\ remaining_buy_quantity' = 0
    /\ pc' = "buy_while"
    /\ UNCHANGED << positions, positions_keys, short_positions_keys, rows_read, df,
                    contract, price, quantity, remaining_sell_quantity,
                    valuationVars, rowSnapshotVars >>
    /\ loop_iterations' = loop_iterations + 1

\* All contracts share one list object: the new lot shows in every long queue.
OpenLongSharedList ==
    /\ pc = "buy_while"
    /\ ~WhileCond(remaining_buy_quantity, short_positions[contract])
    /\ remaining_buy_quantity > 0
    /\ positions' =
           [c \in Contracts |-> PushBack(positions[c], price, remaining_buy_quantity)]
    /\ positions_keys' = TouchKey(positions_keys, contract)
    /\ trade_history' = Append(trade_history,
           Event("BUY", contract, price, remaining_buy_quantity, 0,
                 <<contract, remaining_buy_quantity, price>>))
    /\ pc' = "loop"
    /\ UNCHANGED << short_positions, short_positions_keys, realized_pnl, rows_read, df,
                    contract, price, quantity, remaining_buy_quantity,
                    remaining_sell_quantity, valuationVars, rowSnapshotVars, loop_iterations >>

\* if remaining_buy_quantity > 0: positions[contract].append(...), BUY event
OpenLong ==
    /\ pc = "buy_while"
    /\ ~WhileCond(remaining_buy_quantity, short_positions[contract])
    /\ remaining_buy_quantity > 0
    /\ positions' =
           [positions EXCEPT ![contract] = PushBack(@, price, remaining_buy_quantity)]
    /\ positions_keys' = TouchKey(positions_keys, contract)
    /\ trade_history' = Append(trade_history,
           Event("BUY", contract, price, remaining_buy_quantity, 0,
                 <<contract, remaining_buy_quantity, price>>))
    /\ pc' = "loop"
    /\ UNCHANGED << short_positions, short_positions_keys, realized_pnl, rows_read, df,
                    contract, price, quantity, remaining_buy_quantity,
                    remaining_sell_quantity, valuationVars, rowSnapshotVars, loop_iterations >>

\* the buy was matched completely: nothing is appended
BuyDone ==
    /\ pc = "buy_while"
    /\ ~WhileCond(remaining_buy_quantity, short_positions[contract])
    /\ ~(remaining_buy_quantity > 0)
    /\ pc' = "loop"
    /\ UNCHANGED << bookVars, realized_pnl, trade_history, rows_read, df,
                    contract, price, quantity, remaining_buy_quantity,
                    remaining_sell_quantity, valuationVars, rowSnapshotVars, loop_iterations >>

----------------------------------------------------------------------------
(* Sell: close the long lots of the contract, oldest first.                *)

\* if first_buy_quantity <= remaining_sell_quantity: the front long lot is closed
SellFull ==
    /\ pc = "sell_while"
    /\ WhileCond(remaining_sell_quantity, positions[contract])
    /\ LET first_buy_price == positions[contract][1][1]
           first_buy_quantity == positions[contract][1][2]
           lot_pnl == sell_pnl(price, first_buy_price, first_buy_quantity)
       IN  /\ EntireLot(first_buy_quantity, remaining_sell_quantity)
           /\ realized_pnl' = AddPnl(realized_pnl, lot_pnl)
           /\ trade_history' = Append(trade_history,
                  Event("SELL", contract, price, first_buy_quantity, lot_pnl,
                        <<"Matched", first_buy_quantity, first_buy_price>>))
           /\ remaining_sell_quantity' = remaining_sell_quantity - first_buy_quantity
           /\ positions' = [positions EXCEPT ![contract] = pop0(@)]
    /\ pc' = "sell_while"
    /\ UNCHANGED << short_positions, positions_keys, short_positions_keys, rows_read, df,
                    contract, price, quantity, remaining_buy_quantity,
                    valuationVars, rowSnapshotVars >>
    /\ loop_iterations' = loop_iterations + 1

\* The partial branch forgets to set the unmatched remainder to 0.
SellPartialKeepsRemainder ==
    /\ pc = "sell_while"
    /\ WhileCond(remaining_sell_quantity, positions[contract])
    /\ LET first_buy_price == positions[contract][1][1]
           first_buy_quantity == positions[contract][1][2]
           lot_pnl == sell_pnl(price, first_buy_price, remaining_sell_quantity)
       IN  /\ ~EntireLot(first_buy_quantity, remaining_sell_quantity)
           /\ realized_pnl' = AddPnl(realized_pnl, lot_pnl)
           /\ trade_history' = Append(trade_history,
                  Event("SELL", contract, price, remaining_sell_quantity, lot_pnl,
                        <<"Matched", remaining_sell_quantity, first_buy_price>>))
           /\ positions' =
                  [positions EXCEPT ![contract] =
                      ReduceFront(@, first_buy_price, first_buy_quantity,
                                  remaining_sell_quantity)]
           /\ remaining_sell_quantity' = remaining_sell_quantity
    /\ pc' = "sell_while"
    /\ UNCHANGED << short_positions, positions_keys, short_positions_keys, rows_read, df,
                    contract, price, quantity, remaining_buy_quantity,
                    valuationVars, rowSnapshotVars >>
    /\ loop_iterations' = loop_iterations + 1

\* else: part of the front long lot is closed
SellPartial ==
    /\ pc = "sell_while"
    /\ WhileCond(remaining_sell_quantity, positions[contract])
    /\ LET first_buy_price == positions[contract][1][1]
           first_buy_quantity == positions[contract][1][2]
           lot_pnl == sell_pnl(price, first_buy_price, remaining_sell_quantity)
       IN  /\ ~EntireLot(first_buy_quantity, remaining_sell_quantity)
           /\ realized_pnl' = AddPnl(realized_pnl, lot_pnl)
           /\ trade_history' = Append(trade_history,
                  Event("SELL", contract, price, remaining_sell_quantity, lot_pnl,
                        <<"Matched", remaining_sell_quantity, first_buy_price>>))
           /\ positions' =
                  [positions EXCEPT ![contract] =
                      ReduceFront(@, first_buy_price, first_buy_quantity,
                                  remaining_sell_quantity)]
           /\ remaining_sell_quantity' = 0
    /\ pc' = "sell_while"
    /\ UNCHANGED << short_positions, positions_keys, short_positions_keys, rows_read, df,
                    contract, price, quantity, remaining_buy_quantity,
                    valuationVars, rowSnapshotVars >>
    /\ loop_iterations' = loop_iterations + 1

\* The short lot is opened for the whole trade instead of the unmatched remainder.
OpenShortWholeTrade ==
    /\ pc = "sell_while"
    /\ ~WhileCond(remaining_sell_quantity, positions[contract])
    /\ remaining_sell_quantity > 0
    /\ short_positions' =
           [short_positions EXCEPT ![contract] =
               PushBack(@, price, SellQuantity(quantity))]
    /\ short_positions_keys' = TouchKey(short_positions_keys, contract)
    /\ trade_history' = Append(trade_history,
           Event("SHORT", contract, price, remaining_sell_quantity, 0,
                 <<"Short", remaining_sell_quantity, price>>))
    /\ pc' = "loop"
    /\ UNCHANGED << positions, positions_keys, realized_pnl, rows_read, df,
                    contract, price, quantity, remaining_buy_quantity,
                    remaining_sell_quantity, valuationVars, rowSnapshotVars, loop_iterations >>

\* if remaining_sell_quantity > 0: short_positions[contract].append(...), SHORT event
OpenShort ==
    /\ pc = "sell_while"
    /\ ~WhileCond(remaining_sell_quantity, positions[contract])
    /\ remaining_sell_quantity > 0
    /\ short_positions' =
           [short_positions EXCEPT ![contract] =
               PushBack(@, price, remaining_sell_quantity)]
    /\ short_positions_keys' = TouchKey(short_positions_keys, contract)
    /\ trade_history' = Append(trade_history,
           Event("SHORT", contract, price, remaining_sell_quantity, 0,
                 <<"Short", remaining_sell_quantity, price>>))
    /\ pc' = "loop"
    /\ UNCHANGED << positions, positions_keys, realized_pnl, rows_read, df,
                    contract, price, quantity, remaining_buy_quantity,
                    remaining_sell_quantity, valuationVars, rowSnapshotVars, loop_iterations >>

\* the sell was matched completely (or its quantity was 0): nothing is appended
SellDone ==
    /\ pc = "sell_while"
    /\ ~WhileCond(remaining_sell_quantity, positions[contract])
    /\ ~(remaining_sell_quantity > 0)
    /\ pc' = "loop"
    /\ UNCHANGED << bookVars, realized_pnl, trade_history, rows_read, df,
                    contract, price, quantity, remaining_buy_quantity,
                    remaining_sell_quantity, valuationVars, rowSnapshotVars, loop_iterations >>

----------------------------------------------------------------------------
(* Valuation of the lots that are still open (new.py:146-194).             *)

eom_lookup_misses(eom, c) == None

\* eom_prices.get(contract) if eom_prices else None
eom_lookup(eom, c) == IF c \in DOMAIN eom THEN Some(eom[c]) ELSE None

\* Python truthiness of an optional number: None and 0 are falsy
Truthy(opt) == opt # None /\ opt[1] # 0

market_value(eom_price, q) ==
    IF Truthy(eom_price) THEN Some(eom_price[1] * q) ELSE None

long_unrealized(eom_price, p, q) ==
    IF Truthy(eom_price) THEN (eom_price[1] - p) * q ELSE 0

short_unrealized_as_long(eom_price, p, q) ==
    IF Truthy(eom_price) THEN (eom_price[1] - p) * q ELSE 0

short_unrealized(eom_price, p, q) ==
    IF Truthy(eom_price) THEN (p - eom_price[1]) * q ELSE 0

PositionRow(side, c, lot, eom_price) ==
    [Position |-> side, Contract |-> c, Price |-> lot[1], Quantity |-> lot[2],
     CostBasis |-> lot[1] * lot[2],
     EOMPrice |-> eom_price,
     MarketValue |-> market_value(eom_price, lot[2]),
     UnrealizedPnL |-> IF side = "LONG"
                          THEN long_unrealized(eom_price, lot[1], lot[2])
                          ELSE short_unrealized(eom_price, lot[1], lot[2])]

\* Only the front lot of a queue is reported.
LotRowsFrontLotOnly(side, c, lots, eom_price) ==
    LET kept == SubSeq(lots, 1, 1)
    IN  [i \in 1..Len(kept) |-> PositionRow(side, c, kept[i], eom_price)]

\* for price, quantity in lots: if quantity > 0: remaining_data.append({...})
LotRows(side, c, lots, eom_price) ==
    LET kept == SelectSeq(lots, LAMBDA lot : lot[2] > 0)
    IN  [i \in 1..Len(kept) |-> PositionRow(side, c, kept[i], eom_price)]

\* for contract, lots in <dict>.items(): keys in insertion order
RECURSIVE BookRows(_, _, _, _)
BookRows(side, keys, book, eom) ==
    IF keys = <<>> THEN <<>>
    ELSE LotRows(side, Head(keys), book[Head(keys)], eom_lookup(eom, Head(keys)))
             \o BookRows(side, Tail(keys), book, eom)

\* unrealized_pnl += unrealized, once per appended row
RECURSIVE SumUnrealized(_)
SumUnrealized(rows) ==
    IF rows = <<>> THEN 0
    ELSE rows[1].UnrealizedPnL + SumUnrealized(Tail(rows))

\* A valuation that pops the lots it reports.
ValuationConsumesLots ==
    \E eom \in EomChoices :
        /\ pc = "loop"
        /\ eom_prices' = eom
        /\ remaining_data' =
               BookRows("LONG", positions_keys, positions, eom)
                   \o BookRows("SHORT", short_positions_keys, short_positions, eom)
        /\ unrealized_pnl' = SumUnrealized(remaining_data')
        /\ positions' = [c \in Contracts |-> <<>>]
        /\ short_positions' = [c \in Contracts |-> <<>>]
        /\ pc' = "done"
        /\ UNCHANGED << positions_keys, short_positions_keys, realized_pnl,
                        trade_history, rows_read, df, contract, price, quantity,
                        remaining_buy_quantity, remaining_sell_quantity,
                        rowSnapshotVars, loop_iterations >>

Valuation ==
    \E eom \in EomChoices :
        /\ pc = "loop"
        /\ eom_prices' = eom
        /\ remaining_data' =
               BookRows("LONG", positions_keys, positions, eom)
                   \o BookRows("SHORT", short_positions_keys, short_positions, eom)
        /\ unrealized_pnl' = SumUnrealized(remaining_data')
        /\ pc' = "done"
        /\ UNCHANGED << bookVars, realized_pnl, trade_history, rows_read, df,
                        contract, price, quantity, remaining_buy_quantity,
                        remaining_sell_quantity, rowSnapshotVars, loop_iterations >>

----------------------------------------------------------------------------
(* The variant without valuation, calculate_fifo_pnl of src/fifo.py, as a   *)
(* function of the rows it iterates.  Its state is the record of its four   *)
(* accumulators (and the key order of its two dicts).                       *)

\* positions, short_positions, realized_pnl, trade_history before the loop
fifo_init ==
    [positions |-> [c \in Contracts |-> <<>>],
     short_positions |-> [c \in Contracts |-> <<>>],
     positions_keys |-> <<>>,
     short_positions_keys |-> <<>>,
     realized_pnl |-> 0,
     trade_history |-> <<>>]

\* while remaining_buy_quantity > 0 and short_positions.get(contract): ...
\* The result is the state after the loop with the quantity left unmatched.
RECURSIVE fifo_cover_loop(_, _, _, _)
fifo_cover_loop(s, c, p, remaining_buy) ==
    IF ~(remaining_buy > 0 /\ Len(s.short_positions[c]) > 0)
    THEN [state |-> s, remaining |-> remaining_buy]
    ELSE LET first_short_price == s.short_positions[c][1][1]
             first_short_quantity == s.short_positions[c][1][2]
         IN  IF first_short_quantity <= remaining_buy
             THEN LET lot_pnl == (first_short_price - p) * first_short_quantity
                  IN  fifo_cover_loop(
                          [s EXCEPT
                             !.realized_pnl = @ + lot_pnl,
                             !.trade_history = Append(@,
                                 [Type |-> "COVER", Contract |-> c, Price |-> p,
                                  Quantity |-> first_short_quantity, PnL |-> lot_pnl,
                                  Remaining |-> <<"Covered", first_short_quantity,
                                                  first_short_price>>]),
                             !.short_positions[c] = Tail(@)],
                          c, p, remaining_buy - first_short_quantity)
             ELSE LET lot_pnl == (first_short_price - p) * remaining_buy
                  IN  fifo_cover_loop(
                          [s EXCEPT
                             !.realized_pnl = @ + lot_pnl,
                             !.trade_history = Append(@,
                                 [Type |-> "COVER", Contract |-> c, Price |-> p,
                                  Quantity |-> remaining_buy, PnL |-> lot_pnl,
                                  Remaining |-> <<"Covered", remaining_buy,
                                                  first_short_price>>]),
                             !.short_positions[c][1] =
                                 <<first_short_price,
                                   first_short_quantity - remaining_buy>>],
                          c, p, 0)

\* if quantity > 0: cover, then open a long lot with what is left
fifo_buy(s, c, p, q) ==
    LET after == fifo_cover_loop(s, c, p, q)
        t == after.state
        remaining_buy == after.remaining
    IN  IF remaining_buy > 0
        THEN [t EXCEPT
                !.positions[c] = Append(@, <<p, remaining_buy>>),
                !.positions_keys =
                    IF c \in {@[i] : i \in 1..Len(@)} THEN @ ELSE Append(@, c),
                !.trade_history = Append(@,
                    [Type |-> "BUY", Contract |-> c, Price |-> p,
                     Quantity |-> remaining_buy, PnL |-> 0,
                     Remaining |-> <<c, remaining_buy, p>>])]
        ELSE t

\* while remaining_sell_quantity > 0 and positions.get(contract): ...
RECURSIVE fifo_sell_loop(_, _, _, _)
fifo_sell_loop(s, c, p, remaining_sell) ==
    IF ~(remaining_sell > 0 /\ Len(s.positions[c]) > 0)
    THEN [state |-> s, remaining |-> remaining_sell]
    ELSE LET first_buy_price == s.positions[c][1][1]
             first_buy_quantity == s.positions[c][1][2]
         IN  IF first_buy_quantity <= remaining_sell
             THEN LET lot_pnl == (p - first_buy_price) * first_buy_quantity
                  IN  fifo_sell_loop(
                          [s EXCEPT
                             !.realized_pnl = @ + lot_pnl,
                             !.trade_history = Append(@,
                                 [Type |-> "SELL", Contract |-> c, Price |-> p,
                                  Quantity |-> first_buy_quantity, PnL |-> lot_pnl,
                                  Remaining |-> <<"Matched", first_buy_quantity,
                                                  first_buy_price>>]),
                             !.positions[c] = Tail(@)],
                          c, p, remaining_sell - first_buy_quantity)
             ELSE LET lot_pnl == (p - first_buy_price) * remaining_sell
                  IN  fifo_sell_loop(
                          [s EXCEPT
                             !.realized_pnl = @ + lot_pnl,
                             !.trade_history = Append(@,
                                 [Type |-> "SELL", Contract |-> c, Price |-> p,
                                  Quantity |-> remaining_sell, PnL |-> lot_pnl,
                                  Remaining |-> <<"Matched", remaining_sell,
                                                  first_buy_price>>]),
                             !.positions[c][1] =
                                 <<first_buy_price, first_buy_quantity - remaining_sell>>],
                          c, p, 0)

\* else: sell, then open a short lot with what is left
fifo_sell(s, c, p, q) ==
    LET after == fifo_sell_loop(s, c, p, -q)
        t == after.state
        remaining_sell == after.remaining
    IN  IF remaining_sell > 0
        THEN [t EXCEPT
                !.short_positions[c] = Append(@, <<p, remaining_sell>>),
                !.short_positions_keys =
                    IF c \in {@[i] : i \in 1..Len(@)} THEN @ ELSE Append(@, c),
                !.trade_history = Append(@,
                    [Type |-> "SHORT", Contract |-> c, Price |-> p,
                     Quantity |-> remaining_sell, PnL |-> 0,
                     Remaining |-> <<"Short", remaining_sell, p>>])]
        ELSE t

\* one iteration of for _, row in df.iterrows()
fifo_row(s, row) ==
    IF row.Price = NaN \/ row.Quantity = NaN THEN s
    ELSE IF row.Quantity > 0
         THEN fifo_buy(s, row.Contract, row.Price, row.Quantity)
         ELSE fifo_sell(s, row.Contract, row.Price, row.Quantity)

\* the for loop over the rows
RECURSIVE fifo_loop(_)
fifo_loop(rows) ==
    IF rows = <<>> THEN fifo_init
    ELSE fifo_row(fifo_loop(SubSeq(rows, 1, Len(rows) - 1)), rows[Len(rows)])

\* for price, quantity in lots: if quantity > 0: remaining_data.append({...})
fifo_lot_rows(side, c, lots) ==
    LET kept == SelectSeq(lots, LAMBDA lot : lot[2] > 0)
    IN  [i \in 1..Len(kept) |->
            [Position |-> side, Contract |-> c, Price |-> kept[i][1],
             Quantity |-> kept[i][2], CostBasis |-> kept[i][1] * kept[i][2]]]

RECURSIVE fifo_book_rows(_, _, _)
fifo_book_rows(side, keys, book) ==
    IF keys = <<>> THEN <<>>
    ELSE fifo_lot_rows(side, Head(keys), book[Head(keys)])
             \o fifo_book_rows(side, Tail(keys), book)

\* the remaining positions report
fifo_remaining_data(s) ==
    fifo_book_rows("LONG", s.positions_keys, s.positions)
        \o fifo_book_rows("SHORT", s.short_positions_keys, s.short_positions)

----------------------------------------------------------------------------
Next ==
    \/ SkipRow
    \/ StartBuy
    \/ StartSell
    \/ CoverFull
    \/ CoverPartial
    \/ OpenLong
    \/ BuyDone
    \/ SellFull
    \/ SellPartial
    \/ OpenShort
    \/ SellDone
    \/ Valuation

Spec == Init /\ [][Next]_vars

\* The interpreter always takes the next step of the running function.
FairSpec == Spec /\ WF_vars(Next)

----------------------------------------------------------------------------
(* Vocabulary of the properties.                                           *)

Abs(x) == IF x < 0 THEN -x ELSE x
Min(a, b) == IF a <= b THEN a ELSE b

\* Between two trades: at the head of the for loop, or after it.
BetweenTrades == pc \in {"loop", "done"}

\* The last row read was a trade (not skipped for a missing cell).
RowIsTrade == rows_read > 0 /\ ~isna(price) /\ ~isna(quantity)

\* The events appended since the current row was read.
EventsOfRow == SubSeq(trade_history, history_len_at_row + 1, Len(trade_history))

EventsOfType(events, type) == SelectSeq(events, LAMBDA e : e.Type = type)

RECURSIVE SumQuantity(_)
SumQuantity(events) ==
    IF events = <<>> THEN 0 ELSE events[1].Quantity + SumQuantity(Tail(events))

RECURSIVE SumPnL(_)
SumPnL(events) ==
    IF events = <<>> THEN 0 ELSE events[1].PnL + SumPnL(Tail(events))

\* Total quantity of the first k lots of a queue.
RECURSIVE LotsQuantity(_, _)
LotsQuantity(lots, k) ==
    IF k = 0 THEN 0 ELSE lots[k][2] + LotsQuantity(lots, k - 1)

TotalQuantity(lots) == LotsQuantity(lots, Len(lots))

----------------------------------------------------------------------------
\* C1: per-trade conservation.  Once a trade (buy or sell) has been processed,
\* the quantities of the events appended while processing it sum to the
\* absolute value of the trade's quantity.
Conservation ==
    (BetweenTrades /\ RowIsTrade) => SumQuantity(EventsOfRow) = Abs(quantity)

\* A sell that closed long lots and opened a short lot with the rest.
ConservationWitness ==
    /\ pc = "loop"
    /\ RowIsTrade
    /\ quantity < 0
    /\ Len(EventsOfType(EventsOfRow, "SELL")) >= 2
    /\ Len(EventsOfType(EventsOfRow, "SHORT")) = 1

----------------------------------------------------------------------------
\* C2: one-sided book.  Between two trades no contract has both a non-empty
\* long queue and a non-empty short queue.
OneSidedBook ==
    BetweenTrades =>
        \A c \in Contracts : positions[c] = <<>> \/ short_positions[c] = <<>>

\* A contract that held long lots when the row was read and holds short lots
\* after it: the trade drained one side before it opened the other.
OneSidedBookWitness ==
    /\ pc = "loop"
    /\ RowIsTrade
    /\ positions_at_row[contract] # <<>>
    /\ short_positions[contract] # <<>>
    /\ \E c \in Contracts : c # contract /\ positions[c] # <<>>

----------------------------------------------------------------------------
(* FIFO expectation of a trade of size q against the opposing queue lots:  *)
(* lot k is reached with q minus the quantity of the k-1 older lots still  *)
(* unmatched, and gives min(lot quantity, unmatched), or nothing.          *)

Unmatched(lots, q, k) == q - LotsQuantity(lots, k - 1)

LotsReached(lots, q) == { k \in 1..Len(lots) : Unmatched(lots, q, k) > 0 }

\* The closing events of the row (of type `type`, with note label `label`) are
\* exactly one event per reached lot of `lots`, oldest first, and they come
\* before any other event of the row.
MatchesOldestFirst(lots, q, type, label) ==
    LET closing == EventsOfType(EventsOfRow, type)
        n == Cardinality(LotsReached(lots, q))
    IN  /\ Len(closing) = n
        /\ LotsReached(lots, q) = 1..n
        /\ \A k \in 1..n :
               /\ EventsOfRow[k] = closing[k]
               /\ closing[k].Quantity = Min(lots[k][2], Unmatched(lots, q, k))
               /\ closing[k].Remaining = <<label, closing[k].Quantity, lots[k][1]>>
               /\ k > 1 => closing[k - 1].Quantity = lots[k - 1][2]

\* The example of the specification: buys of 10 at p1 and 10 at p2, then a sell of 15.
FifoExampleCase ==
    /\ BetweenTrades
    /\ RowIsTrade
    /\ quantity = -15
    /\ history_len_at_row = 2
    /\ \A i \in 1..2 :
           /\ trade_history[i].Type = "BUY"
           /\ trade_history[i].Contract = contract
           /\ trade_history[i].Quantity = 10

\* C3: FIFO matching order.  A processed sell has emitted its SELL events against
\* the long lots the contract held when the trade arrived, oldest first, each for
\* min(lot quantity, quantity still unmatched), a younger lot only after the older
\* one was closed entirely; a processed buy likewise with COVER events against the
\* short lots.  Buys of 10 at p1 and 10 at p2 followed by a sell of 15 give exactly
\* two SELL events: 10 matched at p1, then 5 matched at p2.
FifoMatchingOrder ==
    /\ (BetweenTrades /\ RowIsTrade /\ ~IsBuy(quantity)) =>
           MatchesOldestFirst(positions_at_row[contract], -quantity, "SELL", "Matched")
    /\ (BetweenTrades /\ RowIsTrade /\ IsBuy(quantity)) =>
           MatchesOldestFirst(short_positions_at_row[contract], quantity, "COVER", "Covered")
    /\ FifoExampleCase =>
           /\ Len(EventsOfRow) = 2
           /\ \A k \in 1..2 : EventsOfRow[k].Type = "SELL"
           /\ EventsOfRow[1].Quantity = 10
           /\ EventsOfRow[1].Remaining = <<"Matched", 10, trade_history[1].Price>>
           /\ EventsOfRow[2].Quantity = 5
           /\ EventsOfRow[2].Remaining = <<"Matched", 5, trade_history[2].Price>>

\* The example with two different buy prices.
FifoMatchingOrderWitness ==
    /\ FifoExampleCase
    /\ pc = "loop"
    /\ trade_history[1].Price # trade_history[2].Price

----------------------------------------------------------------------------
\* A processed sell larger than the long quantity the contract held, and a
\* processed buy larger than the short quantity it held.
SellExceedsLong ==
    /\ BetweenTrades /\ RowIsTrade /\ quantity < 0
    /\ -quantity > TotalQuantity(positions_at_row[contract])

BuyExceedsShort ==
    /\ BetweenTrades /\ RowIsTrade /\ quantity > 0
    /\ quantity > TotalQuantity(short_positions_at_row[contract])

SellExcess == -quantity - TotalQuantity(positions_at_row[contract])

BuyExcess == quantity - TotalQuantity(short_positions_at_row[contract])

\* C4 as stated: a sell that exceeds the open long quantity leaves zero long lots
\* and exactly one short lot, at the sell price for the excess; a buy that exceeds
\* the open short quantity leaves zero short lots and exactly one long lot, at the
\* buy price for the excess.
SignFlipExactlyOneLot ==
    /\ SellExceedsLong =>
           /\ positions[contract] = <<>>
           /\ short_positions[contract] = << <<price, SellExcess>> >>
    /\ BuyExceedsShort =>
           /\ short_positions[contract] = <<>>
           /\ positions[contract] = << <<price, BuyExcess>> >>

\* C4 (amended): a sell that exceeds the open long quantity leaves zero long lots
\* and appends exactly one short lot, at the sell price for the excess, behind the
\* short lots the contract already had; it is the only short lot when the contract
\* held a long lot before the trade.  Symmetrically for a buy.
SignFlipAppendsOneLot ==
    /\ SellExceedsLong =>
           /\ positions[contract] = <<>>
           /\ short_positions[contract] =
                  Append(short_positions_at_row[contract], <<price, SellExcess>>)
           /\ positions_at_row[contract] # <<>> =>
                  short_positions[contract] = << <<price, SellExcess>> >>
    /\ BuyExceedsShort =>
           /\ short_positions[contract] = <<>>
           /\ positions[contract] =
                  Append(positions_at_row[contract], <<price, BuyExcess>>)
           /\ short_positions_at_row[contract] # <<>> =>
                  positions[contract] = << <<price, BuyExcess>> >>

\* A sell that flipped a contract with two long lots to short.
SignFlipWitness ==
    /\ pc = "loop"
    /\ SellExceedsLong
    /\ Len(positions_at_row[contract]) = 2
    /\ Len(short_positions[contract]) = 1

----------------------------------------------------------------------------
\* C5: PnL of a match.  A SELL event that closes quantity q of a long lot opened
\* at price b with a sell at price s has PnL (s - b) * q; a COVER event that
\* closes quantity q of a short lot opened at price s with a buy at price b has
\* PnL (s - b) * q; the k-th closing event of a trade is against the k-th lot the
\* queue held when the trade arrived.
PnLOfMatch ==
    /\ \A i \in 1..Len(trade_history) :
           LET e == trade_history[i]
           IN  /\ e.Type = "SELL" =>
                      e.PnL = (e.Price - e.Remaining[3]) * e.Quantity
               /\ e.Type = "COVER" =>
                      e.PnL = (e.Remaining[3] - e.Price) * e.Quantity
    /\ RowIsTrade =>
           \A k \in 1..Len(EventsOfRow) :
               LET e == EventsOfRow[k]
               IN  /\ e.Type = "SELL" =>
                          e.PnL = (price - positions_at_row[contract][k][1]) * e.Quantity
                   /\ e.Type = "COVER" =>
                          e.PnL = (short_positions_at_row[contract][k][1] - price)
                                      * e.Quantity

\* A buy that covered one short lot entirely and a part of the next, at a loss
\* on one and a gain on the other.
PnLOfMatchWitness ==
    /\ pc = "buy_while"
    /\ Len(EventsOfRow) = 2
    /\ EventsOfRow[1].Type = "COVER" /\ EventsOfRow[1].PnL < 0
    /\ EventsOfRow[2].Type = "COVER" /\ EventsOfRow[2].PnL > 0
    /\ EventsOfRow[2].Quantity < short_positions_at_row[contract][2][2]

----------------------------------------------------------------------------
\* C6: realized PnL is the running sum of the log.  In every state the realized
\* PnL is the sum of the PnL of the SELL and COVER events emitted so far, and
\* every BUY and SHORT event has PnL 0.
RealizedIsRunningSum ==
    /\ realized_pnl =
           SumPnL(SelectSeq(trade_history, LAMBDA e : e.Type \in {"SELL", "COVER"}))
    /\ \A i \in 1..Len(trade_history) :
           trade_history[i].Type \in {"BUY", "SHORT"} => trade_history[i].PnL = 0

\* Two closing events with different non-zero PnL, and an opening event.
RealizedIsRunningSumWitness ==
    /\ pc = "loop"
    /\ \E i, j, k \in 1..Len(trade_history) :
           /\ i < j
           /\ trade_history[i].Type = "SELL" /\ trade_history[i].PnL > 0
           /\ trade_history[j].Type = "COVER" /\ trade_history[j].PnL < 0
           /\ trade_history[k].Type = "SHORT"
    /\ realized_pnl # 0

----------------------------------------------------------------------------
\* C7: strictly positive lots.  In every state every lot of every long or short
\* queue has quantity > 0; a lot that a match exhausts exactly is popped.
StrictlyPositiveLots ==
    \A c \in Contracts :
        /\ \A i \in 1..Len(positions[c]) : positions[c][i][2] > 0
        /\ \A i \in 1..Len(short_positions[c]) : short_positions[c][i][2] > 0

\* A sell whose quantity was exactly the quantity of the front long lot: the lot
\* is gone and nothing is left to match.
StrictlyPositiveLotsWitness ==
    /\ pc = "sell_while"
    /\ quantity < 0
    /\ remaining_sell_quantity = 0
    /\ positions_at_row[contract] # <<>>
    /\ positions_at_row[contract][1][2] = -quantity
    /\ positions[contract] = Tail(positions_at_row[contract])

----------------------------------------------------------------------------
\* C8: a trade with quantity exactly 0 is rejected: once such a row has been
\* read, the run is not in the buy branch nor in the sell branch with it.
ZeroQuantityRejected ==
    (RowIsTrade /\ quantity = 0) => pc \notin {"buy_while", "sell_while"}

----------------------------------------------------------------------------
(* Valuation.                                                              *)

Marked(c) == c \in DOMAIN eom_prices

\* (m - p) * q for a long lot and (p - m) * q for a short lot.
ExpectedUnrealized(row) ==
    LET m == eom_prices[row.Contract]
    IN  IF row.Position = "LONG"
        THEN (m - row.Price) * row.Quantity
        ELSE (row.Price - m) * row.Quantity

RECURSIVE SumMarkedRows(_)
SumMarkedRows(rows) ==
    IF rows = <<>> THEN 0
    ELSE (IF Marked(rows[1].Contract) THEN rows[1].UnrealizedPnL ELSE 0)
             + SumMarkedRows(Tail(rows))

\* C9: valuation formula.  After the valuation, the row of every lot of a
\* contract that has a mark price m in the mapping has unrealized PnL
\* (m - p) * q (long) or (p - m) * q (short), the row of a lot of a contract
\* without a mark price has unrealized PnL 0, and the unrealized PnL total is
\* the sum of the rows' unrealized PnL over the marked lots.
ValuationFormula ==
    pc = "done" =>
        /\ \A i \in 1..Len(remaining_data) :
               LET row == remaining_data[i]
               IN  /\ Marked(row.Contract) =>
                          row.UnrealizedPnL = ExpectedUnrealized(row)
                   /\ ~Marked(row.Contract) => row.UnrealizedPnL = 0
        /\ unrealized_pnl = SumMarkedRows(remaining_data)

\* The same with the mark price 0 left out: the formula holds of every row
\* whose contract is marked at a non-zero price.
ValuationFormulaNonZeroMark ==
    pc = "done" =>
        /\ \A i \in 1..Len(remaining_data) :
               LET row == remaining_data[i]
               IN  /\ (Marked(row.Contract) /\ eom_prices[row.Contract] # 0) =>
                          row.UnrealizedPnL = ExpectedUnrealized(row)
                   /\ (Marked(row.Contract) /\ eom_prices[row.Contract] = 0) =>
                          row.UnrealizedPnL = 0
                   /\ ~Marked(row.Contract) => row.UnrealizedPnL = 0
        /\ unrealized_pnl = SumMarkedRows(remaining_data)

----------------------------------------------------------------------------
\* The unmarked indication of a row: no mark price and no market value.
Unmarked(row) == row.EOMPrice = None /\ row.MarketValue = None

\* C10: unmarked lots are observable.  The row of a lot whose contract has no
\* entry in the mark-price mapping carries the unmarked indication and unrealized
\* PnL 0, and differs in it from every row of a marked lot whose unrealized PnL
\* is 0; the row of a contract that has an entry never carries the indication.
UnmarkedObservable ==
    pc = "done" =>
        \A i \in 1..Len(remaining_data) :
            LET row == remaining_data[i]
            IN  /\ ~Marked(row.Contract) =>
                       /\ Unmarked(row)
                       /\ row.UnrealizedPnL = 0
                       /\ \A j \in 1..Len(remaining_data) :
                              (Marked(remaining_data[j].Contract)
                                  /\ remaining_data[j].UnrealizedPnL = 0) =>
                                  remaining_data[j].EOMPrice # row.EOMPrice
                /\ Marked(row.Contract) =>
                       /\ ~Unmarked(row)
                       /\ row.EOMPrice = Some(eom_prices[row.Contract])

\* A snapshot with the row of an unmarked lot and the row of a lot that is
\* marked at its own price (unrealized PnL 0).
UnmarkedObservableWitness ==
    /\ pc = "done"
    /\ \E i, j \in 1..Len(remaining_data) :
           /\ ~Marked(remaining_data[i].Contract)
           /\ Marked(remaining_data[j].Contract)
           /\ remaining_data[j].EOMPrice = Some(remaining_data[j].Price)
           /\ remaining_data[j].UnrealizedPnL = 0

----------------------------------------------------------------------------
\* The step from the end of the for loop to the return: the valuation pass.
ValuationStep == pc = "loop" /\ pc' = "done"

\* C11: valuation is read-only and idempotent.  The valuation pass leaves the
\* long and short queues of every contract, the trade history and the realized
\* PnL unchanged, and a second pass over the book it leaves, with the same mark
\* prices, gives the same unrealized PnL and the same snapshot rows.
ValuationReadOnlyIdempotent ==
    [][ValuationStep =>
          /\ positions' = positions
          /\ short_positions' = short_positions
          /\ trade_history' = trade_history
          /\ realized_pnl' = realized_pnl
          /\ remaining_data' =
                 BookRows("LONG", positions_keys', positions', eom_prices')
                     \o BookRows("SHORT", short_positions_keys', short_positions',
                                 eom_prices')
          /\ unrealized_pnl' = SumUnrealized(remaining_data')]_vars

\* A valuation of a book with a long lot of one contract and a short lot of the
\* other, with a non-zero unrealized PnL.
ValuationReadOnlyIdempotentWitness ==
    /\ pc = "done"
    /\ \E c1, c2 \in Contracts : positions[c1] # <<>> /\ short_positions[c2] # <<>>
    /\ Len(remaining_data) >= 2
    /\ unrealized_pnl # 0

----------------------------------------------------------------------------
\* The reference scenario: (X, 100, +10), (X, 105, -4), (X, 98, -10).
ReferenceTrades ==
    << [Contract |-> "X", Price |-> 100, Quantity |-> 10],
       [Contract |-> "X", Price |-> 105, Quantity |-> -4],
       [Contract |-> "X", Price |-> 98, Quantity |-> -10] >>

NoLots == [c \in Contracts |-> <<>>]

\* C12: reference scenario.  After trade 2 the book is one long lot (100, 6) and
\* the realized PnL is 20; after trade 3 the realized PnL is 8 and the only lot
\* of the book is one short lot (98, 4); valued with mark price 90 for X the
\* unrealized PnL is 32.
ReferenceScenario ==
    /\ (BetweenTrades /\ df = SubSeq(ReferenceTrades, 1, 2)) =>
           /\ positions = [NoLots EXCEPT !["X"] = << <<100, 6>> >>]
           /\ short_positions = NoLots
           /\ realized_pnl = 20
    /\ (BetweenTrades /\ df = ReferenceTrades) =>
           /\ positions = NoLots
           /\ short_positions = [NoLots EXCEPT !["X"] = << <<98, 4>> >>]
           /\ realized_pnl = 8
    /\ (pc = "done" /\ df = ReferenceTrades
            /\ "X" \in DOMAIN eom_prices /\ eom_prices["X"] = 90) =>
           unrealized_pnl = 32

\* The scenario run to its end and valued with 90 for X.
ReferenceScenarioWitness ==
    /\ pc = "done"
    /\ df = ReferenceTrades
    /\ "X" \in DOMAIN eom_prices
    /\ eom_prices["X"] = 90

----------------------------------------------------------------------------
RowsOfQueue(rows, side, c) ==
    SelectSeq(rows, LAMBDA r : r.Position = side /\ r.Contract = c)

\* The rows of one side and contract are the lots of that queue, one row per
\* lot, in queue order, with the lot's price, quantity and cost basis.
OneRowPerLot(rows, side, c, lots) ==
    LET mine == RowsOfQueue(rows, side, c)
    IN  /\ Len(mine) = Len(lots)
        /\ \A i \in 1..Len(lots) :
               /\ mine[i].Price = lots[i][1]
               /\ mine[i].Quantity = lots[i][2]
               /\ mine[i].CostBasis = lots[i][1] * lots[i][2]

\* A snapshot `rows` of the book (long, short): one row per open lot, no other row.
SnapshotOfBook(rows, long, short) ==
    /\ \A i \in 1..Len(rows) :
           rows[i].Position \in {"LONG", "SHORT"} /\ rows[i].Contract \in Contracts
    /\ \A c \in Contracts :
           /\ OneRowPerLot(rows, "LONG", c, long[c])
           /\ OneRowPerLot(rows, "SHORT", c, short[c])

\* C13: snapshot is per lot.  The remaining-positions snapshot has exactly one
\* row per open lot of the final book, each with the lot's side, contract, price,
\* quantity and cost basis = price * quantity (in new.py and in the report of
\* fifo.py over the same rows); a final book with no open lot gives an empty
\* snapshot and unrealized PnL 0.
SnapshotPerLot ==
    pc = "done" =>
        /\ SnapshotOfBook(remaining_data, positions, short_positions)
        /\ LET s == fifo_loop(df)
           IN  SnapshotOfBook(fifo_remaining_data(s), s.positions, s.short_positions)
        /\ (positions = NoLots /\ short_positions = NoLots) =>
               (remaining_data = <<>> /\ unrealized_pnl = 0)

\* A snapshot of a book with two long lots of one contract and a short lot of
\* the other.
SnapshotPerLotWitness ==
    /\ pc = "done"
    /\ \E c1, c2 \in Contracts :
           /\ Len(positions[c1]) = 2
           /\ short_positions[c2] # <<>>
    /\ Len(remaining_data) = 3

\* A run that ends with no open lot after trades that opened some.
SnapshotEmptyBookWitness ==
    /\ pc = "done"
    /\ positions = NoLots /\ short_positions = NoLots
    /\ trade_history # <<>>
    /\ remaining_data = <<>>

----------------------------------------------------------------------------
\* The events of contract c that opened a lot on one side ("BUY" or "SHORT").
OpeningEvents(type, c) ==
    SelectSeq(trade_history, LAMBDA e : e.Type = type /\ e.Contract = c)

\* The lots of a queue are the lots opened by the last Len(lots) opening events
\* of its contract and side, in that order: same price, same quantity, but for
\* the front lot, which may have been reduced.
LotsInArrivalOrder(lots, opened) ==
    LET n == Len(lots)
        off == Len(opened) - n
    IN  /\ off >= 0
        /\ \A i \in 1..n :
               /\ lots[i][1] = opened[off + i].Price
               /\ lots[i][2] <= opened[off + i].Quantity
               /\ i > 1 => lots[i][2] = opened[off + i].Quantity

ArrivalOrder ==
    \A c \in Contracts :
        /\ LotsInArrivalOrder(positions[c], OpeningEvents("BUY", c))
        /\ LotsInArrivalOrder(short_positions[c], OpeningEvents("SHORT", c))

\* What one step may do to a queue: nothing, append one lot of the current trade
\* at the back, pop the front lot, or reduce the quantity of the front lot.
QueueStep(c, old, new) ==
    \/ new = old
    \/ /\ c = contract
       /\ Len(new) = Len(old) + 1
       /\ SubSeq(new, 1, Len(old)) = old
       /\ new[Len(new)][1] = price
    \/ /\ c = contract /\ old # <<>>
       /\ new = Tail(old)
    \/ /\ c = contract /\ old # <<>>
       /\ Len(new) = Len(old)
       /\ new[1][1] = old[1][1]
       /\ new[1][2] < old[1][2]
       /\ Tail(new) = Tail(old)

\* C14: queue order is arrival order.  In every state the lots of each queue are
\* in the order of the trades that opened them, oldest at the front; a step
\* appends a new lot only at the back, a partial match only reduces the quantity
\* of the front lot, and nothing else changes but the front lot being popped.
QueueOrderIsArrivalOrder ==
    /\ []ArrivalOrder
    /\ [][\A c \in Contracts :
              /\ QueueStep(c, positions[c], positions'[c])
              /\ QueueStep(c, short_positions[c], short_positions'[c])]_vars

\* A queue of two lots whose front lot was reduced by a partial match.
QueueOrderIsArrivalOrderWitness ==
    /\ pc = "loop"
    /\ \E c \in Contracts :
           /\ Len(positions[c]) = 2
           /\ Len(positions_at_row[c]) = 2
           /\ positions[c][1][2] < positions_at_row[c][1][2]
           /\ positions[c][1][1] # positions[c][2][1]

----------------------------------------------------------------------------
\* The events of a row are closing events of one type, then at most one opening
\* event, which is then the last.
ClosingThenOpening(events, closing, opening) ==
    \A k \in 1..Len(events) :
        /\ events[k].Type \in {closing, opening}
        /\ events[k].Type = opening => k = Len(events)

EventsShape ==
    /\ history_len_at_row <= Len(trade_history)
    /\ \A k \in 1..Len(EventsOfRow) :
           EventsOfRow[k].Contract = contract /\ EventsOfRow[k].Price = price
    /\ (rows_read > 0 /\ ~RowIsTrade) => EventsOfRow = <<>>
    /\ (RowIsTrade /\ IsBuy(quantity)) =>
           ClosingThenOpening(EventsOfRow, "COVER", "BUY")
    /\ (RowIsTrade /\ ~IsBuy(quantity)) =>
           ClosingThenOpening(EventsOfRow, "SELL", "SHORT")

\* A step keeps the events there are and appends at most one; reading a row
\* appends none, so the events of a row all come after those of the rows before
\* it; a BUY is appended only with the short queue of the contract empty, a
\* SHORT only with its long queue empty.
EventsStep ==
    /\ Len(trade_history') \in {Len(trade_history), Len(trade_history) + 1}
    /\ SubSeq(trade_history', 1, Len(trade_history)) = trade_history
    /\ rows_read' # rows_read =>
           (trade_history' = trade_history /\ history_len_at_row' = Len(trade_history))
    /\ rows_read' = rows_read => history_len_at_row' = history_len_at_row
    /\ Len(trade_history') = Len(trade_history) + 1 =>
           LET e == trade_history'[Len(trade_history')]
           IN  /\ e.Type = "BUY" => short_positions[contract] = <<>>
               /\ e.Type = "SHORT" => positions[contract] = <<>>

\* C15: shape of a trade's events.  The history is append-only and the events of
\* a trade precede those of the next; a buy appends zero or more COVER events
\* then at most one BUY event, a sell zero or more SELL events then at most one
\* SHORT event; every event carries the trade's contract and price; a BUY (SHORT)
\* event is appended only when the contract's short (long) queue is empty.
ShapeOfTradeEvents == []EventsShape /\ [][EventsStep]_vars

\* A buy that covered two short lots and opened a long lot with the rest.
ShapeOfTradeEventsWitness ==
    /\ pc = "loop"
    /\ Len(EventsOfRow) = 3
    /\ EventsOfRow[1].Type = "COVER"
    /\ EventsOfRow[2].Type = "COVER"
    /\ EventsOfRow[3].Type = "BUY"
    /\ EventsOfRow[1].Remaining[3] # price

----------------------------------------------------------------------------
RowIsMissing(row) == row.Price = NaN \/ row.Quantity = NaN

\* The stream without the rows that have a missing price or quantity.
TradesOnly(rows) == SelectSeq(rows, LAMBDA row : ~RowIsMissing(row))

\* The four accumulators of the run are those of the state s of fifo_loop.
SameRun(s) ==
    /\ positions = s.positions
    /\ short_positions = s.short_positions
    /\ realized_pnl = s.realized_pnl
    /\ trade_history = s.trade_history

\* C16: skipped rows are inert.  The step that reads a row with a missing price
\* or quantity leaves the queues of every contract, the trade history and the
\* realized PnL unchanged and goes on to the next row; and between trades the
\* queues, history and realized PnL are those of the run over the stream without
\* the skipped rows.
SkippedRowsInert ==
    /\ [][(rows_read' # rows_read /\ RowIsMissing(df'[Len(df')])) =>
             /\ positions' = positions
             /\ short_positions' = short_positions
             /\ trade_history' = trade_history
             /\ realized_pnl' = realized_pnl
             /\ pc' = "loop"]_vars
    /\ [](BetweenTrades =>
             /\ SameRun(fifo_loop(TradesOnly(df)))
             /\ fifo_loop(df) = fifo_loop(TradesOnly(df)))

\* A skipped row between a buy and a sell that was matched against the lot of
\* that buy.
SkippedRowsInertWitness ==
    /\ pc = "loop"
    /\ Len(df) = 3
    /\ RowIsMissing(df[2])
    /\ ~RowIsMissing(df[1])
    /\ RowIsTrade
    /\ positions_at_row[contract] # <<>>
    /\ Len(EventsOfType(EventsOfRow, "SELL")) = 1

----------------------------------------------------------------------------
RowsOfContract(rows, c) == SelectSeq(rows, LAMBDA row : row.Contract = c)

EventsOfContract(events, c) == SelectSeq(events, LAMBDA e : e.Contract = c)

RECURSIVE SumOverContracts(_, _)
SumOverContracts(f(_), cs) ==
    IF cs = {} THEN 0
    ELSE LET c == CHOOSE x \in cs : TRUE
         IN  f(c) + SumOverContracts(f, cs \ {c})

\* The run over the rows of contract c alone, in their original order.
RunOfContract(c) == fifo_loop(RowsOfContract(df, c))

RealizedOfContract(c) == RunOfContract(c).realized_pnl

\* C17: contracts are independent.  A step of a trade on one contract leaves the
\* queues of every other contract unchanged; and between trades the queues of
\* each contract, its events in order and the realized PnL it contributed are
\* those of the run over that contract's rows alone, in their original order.
ContractsIndependent ==
    /\ [][\A c \in Contracts :
              c # contract' =>
                  /\ positions'[c] = positions[c]
                  /\ short_positions'[c] = short_positions[c]]_vars
    /\ [](BetweenTrades =>
             /\ \A c \in Contracts :
                    LET s == RunOfContract(c)
                    IN  /\ positions[c] = s.positions[c]
                        /\ short_positions[c] = s.short_positions[c]
                        /\ EventsOfContract(trade_history, c) = s.trade_history
                        /\ SumPnL(EventsOfContract(trade_history, c)) = s.realized_pnl
             /\ realized_pnl = SumOverContracts(RealizedOfContract, Contracts))

\* Trades of X, Y, X: the second trade of X is matched against the lot of the
\* first with a lot of Y opened in between, at a non-zero PnL.
ContractsIndependentWitness ==
    /\ pc = "loop"
    /\ Len(df) = 3
    /\ df[1].Contract = "X" /\ df[2].Contract = "Y" /\ df[3].Contract = "X"
    /\ positions["Y"] # <<>> \/ short_positions["Y"] # <<>>
    /\ Len(EventsOfRow) >= 1
    /\ EventsOfRow[1].Type \in {"SELL", "COVER"}
    /\ EventsOfRow[1].PnL # 0

----------------------------------------------------------------------------
RECURSIVE SignedQuantity(_)
SignedQuantity(rows) ==
    IF rows = <<>> THEN 0
    ELSE Head(rows).Quantity + SignedQuantity(Tail(rows))

NetPosition(c) == TotalQuantity(positions[c]) - TotalQuantity(short_positions[c])

\* C18: net position is conserved.  After any sequence of trades, for every
\* contract, the open long quantity minus the open short quantity equals the sum
\* of the signed quantities of the trades processed so far for that contract.
NetPositionConserved ==
    BetweenTrades =>
        \A c \in Contracts :
            NetPosition(c) = SignedQuantity(RowsOfContract(TradesOnly(df), c))

\* Three trades, one of them closing a long lot and flipping the contract short
\* while the other contract holds a position of its own.
NetPositionConservedWitness ==
    /\ pc = "loop"
    /\ Len(TradesOnly(df)) = 3
    /\ \E c \in Contracts :
           /\ NetPosition(c) < 0
           /\ \E i \in 1..Len(trade_history) :
                  /\ trade_history[i].Type = "SELL"
                  /\ trade_history[i].Contract = c
           /\ \E d \in Contracts \ {c} : NetPosition(d) # 0

----------------------------------------------------------------------------
\* Sum over the trades of (m(c) - p) * q, c the contract of the trade.
RECURSIVE MarkedToMarket(_)
MarkedToMarket(rows) ==
    IF rows = <<>> THEN 0
    ELSE LET row == Head(rows)
         IN  (eom_prices[row.Contract] - row.Price) * row.Quantity
                 + MarkedToMarket(Tail(rows))

AllTradedMarked == \A i \in 1..Len(TradesOnly(df)) : Marked(TradesOnly(df)[i].Contract)

\* C19: total PnL identity.  When every traded contract c is valued at a mark
\* price m(c), realized plus unrealized PnL equals the sum over all processed
\* trades (price p, signed quantity q) of (m(c) - p) * q.
TotalPnLIdentity ==
    (pc = "done" /\ AllTradedMarked) =>
        realized_pnl + unrealized_pnl = MarkedToMarket(TradesOnly(df))

\* The same with the mark price 0 left out: the identity holds of every run in
\* which no traded contract is marked at 0.
TotalPnLIdentityNonZeroMark ==
    (pc = "done" /\ AllTradedMarked
        /\ \A c \in DOMAIN eom_prices : eom_prices[c] # 0) =>
        realized_pnl + unrealized_pnl = MarkedToMarket(TradesOnly(df))

\* Both contracts traded and marked at a non-zero price, lots matched at a
\* non-zero realized PnL and lots left open at a non-zero unrealized PnL.
TotalPnLIdentityNonZeroMarkWitness ==
    /\ pc = "done"
    /\ AllTradedMarked
    /\ \A c \in DOMAIN eom_prices : eom_prices[c] # 0
    /\ Len(TradesOnly(df)) = 3
    /\ \E i, j \in 1..3 : TradesOnly(df)[i].Contract # TradesOnly(df)[j].Contract
    /\ realized_pnl # 0
    /\ unrealized_pnl # 0

----------------------------------------------------------------------------
\* The columns the report of src/fifo.py has.
ReportColumns(rows) ==
    [i \in 1..Len(rows) |->
        [Position |-> rows[i].Position, Contract |-> rows[i].Contract,
         Price |-> rows[i].Price, Quantity |-> rows[i].Quantity,
         CostBasis |-> rows[i].CostBasis]]

\* C20: the two variants share one engine.  Run side by side over the same
\* rows, the matching loop of src/new.py and that of src/fifo.py have the same
\* realized PnL, the same trade history and the same long and short queues after
\* every trade, and their remaining-position rows agree on side, contract,
\* price, quantity and cost basis.
SharedEngine ==
    /\ BetweenTrades => SameRun(fifo_loop(df))
    /\ pc = "done" =>
           ReportColumns(remaining_data) = fifo_remaining_data(fifo_loop(df))

\* A run that closes lots at a non-zero PnL and reports both a long and a short
\* lot.
SharedEngineWitness ==
    /\ pc = "done"
    /\ realized_pnl # 0
    /\ \E i, j \in 1..Len(remaining_data) :
           /\ remaining_data[i].Position = "LONG"
           /\ remaining_data[j].Position = "SHORT"
    /\ Len(fifo_loop(df).trade_history) >= 3

----------------------------------------------------------------------------
\* One pass through the body of the while loop of the current trade.
IterationStep == loop_iterations' = loop_iterations + 1

\* The queue the current trade is matched against, and its unmatched remainder.
OpposingQueue ==
    IF IsBuy(quantity) THEN short_positions[contract] ELSE positions[contract]

OpposingQueueAtRow ==
    IF IsBuy(quantity) THEN short_positions_at_row[contract]
    ELSE positions_at_row[contract]

Remainder ==
    IF IsBuy(quantity) THEN remaining_buy_quantity ELSE remaining_sell_quantity

PopsFrontOrZeroesRemainder ==
    \/ /\ OpposingQueue # <<>>
       /\ OpposingQueue' = Tail(OpposingQueue)
    \/ Remainder' = 0

IterationsBounded ==
    RowIsTrade =>
        /\ loop_iterations <= Len(OpposingQueueAtRow)
        /\ Len(EventsOfRow) <= Len(OpposingQueueAtRow) + 1

\* C21: every trade's matching loop terminates.  Each iteration either pops the
\* front opposing lot or sets the unmatched remainder to 0; a trade performs at
\* most as many iterations as its contract had open opposing lots when it
\* started and appends at most that number plus one events; and the run over
\* the trade stream reaches the valuation step, which is entered only from
\* between two trades, so that every matching loop of the run has been left.
MatchingLoopTerminates ==
    /\ [][IterationStep => PopsFrontOrZeroesRemainder]_vars
    /\ []IterationsBounded
    /\ <>(pc = "done")

\* The valuation step is reached after a trade that met two opposing lots, went
\* through the loop twice and appended three events.
MatchingLoopTerminatesWitness ==
    /\ pc = "done"
    /\ RowIsTrade
    /\ Len(OpposingQueueAtRow) = 2
    /\ loop_iterations = 2
    /\ Len(EventsOfRow) = 3

====
